---- MODULE Spec2Model ----
(***************************************************************************)
(* Model of UploadView (src/example.py): the GET and POST handlers of the  *)
(* upload page, the cadence gate, the parse / merge / stale-deletion       *)
(* pipeline and the audit record written in the finally block.             *)
(*                                                                         *)
(* Text is modelled as sequences of one-character strings (with the field  *)
(* name of a record as one token), times as integer ticks, TicksPerDay of  *)
(* them to a day.                                                          *)
(*                                                                         *)
(* Spec        a single request against any store, with files of rows      *)
(* SpecGate    sequences of requests over several days, files without rows *)
(* SpecCadence the cadence computation for any clock and earlier uploads   *)
(***************************************************************************)
EXTENDS Integers, Sequences, FiniteSets, TLC

VARIABLES
  store,             \* Project.objects: the set of order_numbers in the store
  uploads,           \* Upload.objects: the audit log, in order of creation
  now,               \* the clock, in ticks
  cooldown,          \* settings.UPLOAD_ALLOWED_AFTER_DAYS
  form_disabled,     \* UploadView.form.fields[...].disabled (class attribute)
  pc,                \* position of the request in flight
  request,           \* the request in flight (method, user, files, form validity)
  days_to_upload,    \* __check_upload_allow: days_to_upload of this request
  msgs,              \* django messages attached to this request
  c11_data,          \* post: c11_data
  bw_data,           \* post: bw_data
  c11_data_error,    \* post: c11_data_error
  bw_data_error,     \* post: bw_data_error
  file_content,      \* post: file_content
  statistics,        \* post: statistics
  upload_successful, \* post: upload_successful
  extra_projects,    \* post: the part of extra_projects not yet iterated
  response,          \* what the handler returned
  pre_store,         \* the store when this request began
  pre_uploads,       \* the audit log when this request began
  called,            \* the collaborators this request has called
  raised,            \* the steps of this request that raised an exception
  deleted            \* the order_numbers this request has deleted

vars == <<store, uploads, now, cooldown, form_disabled, pc, request,
          days_to_upload, msgs, c11_data, bw_data, c11_data_error,
          bw_data_error, file_content, statistics, upload_successful,
          extra_projects, response, pre_store, pre_uploads, called, raised,
          deleted>>

-----------------------------------------------------------------------------
(* Bounds *)

NumOrders == 3
MaxRows == 1
MaxUploads == 1
MaxTime == 4
TicksPerDay == 2
MaxCooldown == 1
MaxGateTime == 14
MaxNameLen == 50

Orders == {100 + i : i \in 1..NumOrders}

-----------------------------------------------------------------------------
(* Text *)

Digit == <<"0", "1", "2", "3", "4", "5", "6", "7", "8", "9">>

DigitValue(c) == CHOOSE d \in 0..9 : Digit[d + 1] = c

IsDigit(c) == \E d \in 0..9 : Digit[d + 1] = c

RECURSIVE ToDigits(_)
ToDigits(n) == IF n < 10 THEN <<Digit[n + 1]>>
               ELSE Append(ToDigits(n \div 10), Digit[(n % 10) + 1])

RECURSIVE Strip(_)
Strip(s) == IF s = <<>> THEN s
            ELSE IF Head(s) = " " THEN Strip(Tail(s))
            ELSE IF s[Len(s)] = " " THEN Strip(SubSeq(s, 1, Len(s) - 1))
            ELSE s

RECURSIVE DigitsValue(_)
DigitsValue(s) == IF s = <<>> THEN 0
                  ELSE 10 * DigitsValue(SubSeq(s, 1, Len(s) - 1)) + DigitValue(s[Len(s)])

CanInt(s) == /\ Strip(s) # <<>>
             /\ \A i \in 1..Len(Strip(s)) : IsDigit(Strip(s)[i])

ToInt(s) == DigitsValue(Strip(s))

RECURSIVE Split(_, _)
Split(s, sep) ==
  IF \A i \in 1..Len(s) : s[i] # sep THEN <<s>>
  ELSE LET k == CHOOSE i \in 1..Len(s) : s[i] = sep /\ \A j \in 1..(i - 1) : s[j] # sep
       IN <<SubSeq(s, 1, k - 1)>> \o Split(SubSeq(s, k + 1, Len(s)), sep)

Repeat(c, n) == [i \in 1..n |-> c]

RECURSIVE SeqsUpTo(_, _)
SeqsUpTo(S, n) == IF n = 0 THEN {<<>>}
                  ELSE LET shorter == SeqsUpTo(S, n - 1)
                       IN shorter \cup {Append(s, e) : s \in shorter, e \in S}

Range(s) == {s[i] : i \in 1..Len(s)}

-----------------------------------------------------------------------------
(* Actors, files and records *)

Users == [is_staff : BOOLEAN, is_superuser : BOOLEAN, in_groups : BOOLEAN]

\* the actors of the pipeline scenarios: one per way through the gate
Uploaders == {[is_staff |-> FALSE, is_superuser |-> FALSE, in_groups |-> TRUE],
              [is_staff |-> FALSE, is_superuser |-> FALSE, in_groups |-> FALSE],
              [is_staff |-> TRUE, is_superuser |-> FALSE, in_groups |-> TRUE],
              [is_staff |-> FALSE, is_superuser |-> TRUE, in_groups |-> FALSE]}

\* the order_number cell of a raw row: the digits of a number, or not a number
RawCells == {ToDigits(n) : n \in Orders} \cup {<<"x">>}

FileName == Repeat("a", 3)

ExcelFiles == [name : {FileName}, kind : {"excel"}, rows : SeqsUpTo(RawCells, MaxRows)]

BrokenFiles == [name : {FileName}, kind : {"wrong_excel", "not_excel", "corrupt"}, rows : {<<>>}]

Files == ExcelFiles \cup BrokenFiles

NoFile == [name |-> <<>>, kind |-> "none", rows |-> <<>>]

\* an uploaded file that no parser has opened yet
Unread(name) == [name |-> name, kind |-> "unread", rows |-> <<>>]

NoRequest == [method |-> "none",
              user |-> [is_staff |-> FALSE, is_superuser |-> FALSE, in_groups |-> FALSE],
              c11_file |-> NoFile, bw_file |-> NoFile, form_valid |-> FALSE]

\* the file names of the label scenarios: every length, the two files told apart
NamesOf(ch) == {Repeat(ch, n) : n \in 1..MaxNameLen}

\* the same upload under another name
Named(file, name) == [file EXCEPT !.name = name]

\* the files of the cadence scenarios: no data rows, well-formed or not
GateFiles == {f \in Files : f.rows = <<>> /\ f.kind \in {"excel", "wrong_excel"}}

RECURSIVE ParseRows(_, _)
ParseRows(rows, i) ==
  IF i > Len(rows) THEN [data |-> <<>>, errors |-> <<>>]
  ELSE LET rest == ParseRows(rows, i + 1)
       IN IF CanInt(rows[i])
          THEN [data |-> <<[order_number |-> ToInt(rows[i]), row |-> i]>> \o rest.data,
                errors |-> rest.errors]
          ELSE [data |-> rest.data,
                errors |-> <<[row |-> i, reason |-> "order_number", raw |-> rows[i]]>> \o rest.errors]

\* Uploader.parse_c11_file / parse_bw_file on a well-formed file
ParseFile(file) == ParseRows(file.rows, 1)

\* TypedRecord.__str__
RecordStr(r) == <<"{", "order_number", ":", " ">> \o ToDigits(r.order_number)
                \o <<",", " ", "row", ":", " ">> \o ToDigits(r.row) \o <<"}">>

StrList(data) == [i \in 1..Len(data) |-> RecordStr(data[i])]

OrderNumbersOf(data) == {data[i].order_number : i \in 1..Len(data)}

\* the f-string of post: a JSON object of two lists of strings; '' is <<>>
FileContent(c11, bw) == <<[key |-> "c11_data", rows |-> StrList(bw)],
                          [key |-> "bw_data", rows |-> StrList(c11)]>>

\* row[1:-1].split(',')[0]
OrderNumberCell(row) == Split(SubSeq(row, 2, Len(row) - 1), ",")[1]

\* int(order_number_cell.split(':')[1]) raises on a cell without ':' or digits
RowRaises(row) == LET parts == Split(OrderNumberCell(row), ":")
                  IN Len(parts) < 2 \/ ~CanInt(parts[2])

RowOrderNumber(row) == ToInt(Split(OrderNumberCell(row), ":")[2])

\* a variant reading only the first list of the object
AllRowsFirstKey(content) == IF content = <<>> THEN <<>> ELSE content[1].rows

AllRows(content) == IF content = <<>> THEN <<>>
                    ELSE content[1].rows \o content[2].rows

ExtractRaises(content) == \E i \in 1..Len(AllRows(content)) : RowRaises(AllRows(content)[i])

UploadedOrderNumbers(content) ==
  [i \in 1..Len(AllRows(content)) |-> RowOrderNumber(AllRows(content)[i])]

\* a variant with filter in place of exclude
ExtraProjectsFilter(projects, uploaded) == {p \in projects : p \in Range(uploaded)}

\* Project.objects.exclude(order_number__in=uploaded_order_numbers)
ExtraProjects(projects, uploaded) == {p \in projects : p \notin Range(uploaded)}

\* Architect.build_objects: one Project per order_number of either input
BuildProjects(projects, c11, bw) == projects \cup OrderNumbersOf(c11) \cup OrderNumbersOf(bw)

BuildStatistics(c11, bw) ==
  [matched |-> Cardinality(OrderNumbersOf(c11) \cap OrderNumbersOf(bw)),
   c11_only |-> Cardinality(OrderNumbersOf(c11) \ OrderNumbersOf(bw)),
   bw_only |-> Cardinality(OrderNumbersOf(bw) \ OrderNumbersOf(c11))]

NoStatistics == [matched |-> 0, c11_only |-> 0, bw_only |-> 0]

\* a variant that cuts at the column's 100 characters
FileLabelTo100(c11_name, bw_name) ==
  LET full == <<"c", "1", "1", ":", " ">> \o c11_name
              \o <<" ", "-", " ", "b", "w", ":", " ">> \o bw_name
  IN SubSeq(full, 1, IF Len(full) < 100 THEN Len(full) ELSE 100)

\* f'c11: {c11_file.name} - bw: {bw_file.name}'[:99]
FileLabel(c11_name, bw_name) ==
  LET full == <<"c", "1", "1", ":", " ">> \o c11_name
              \o <<" ", "-", " ", "b", "w", ":", " ">> \o bw_name
  IN SubSeq(full, 1, IF Len(full) < 99 THEN Len(full) ELSE 99)

-----------------------------------------------------------------------------
(* Cadence gate *)

\* a variant without the replace(hour=0, ...)
MidnightNotTruncated(t) == t

\* datetime.now(timezone.utc).replace(hour=0, minute=0, second=0, microsecond=0)
Midnight(t) == t - (t % TicksPerDay)

\* Upload.objects.all().order_by('-timestamp')[0]
LastUpload(log) == CHOOSE u \in Range(log) : \A v \in Range(log) : v.timestamp <= u.timestamp

\* a variant that counts from the latest successful upload only
DaysToNextUploadAfterSuccess(user, log, t, days) ==
  LET good == SelectSeq(log, LAMBDA u : u.read_successful)
  IN IF user.is_staff THEN 0
     ELSE IF good = <<>> THEN 0
     ELSE ((LastUpload(good).timestamp + days * TicksPerDay) - Midnight(t)) \div TicksPerDay

DaysToNextUpload(user, log, t, days) ==
  IF user.is_staff THEN 0
  ELSE IF log = <<>> THEN 0
  ELSE ((LastUpload(log).timestamp + days * TicksPerDay) - Midnight(t)) \div TicksPerDay

\* a variant that never denies
CheckUploadAllowAlways(user, log, t, days) == TRUE

CheckUploadAllow(user, log, t, days) == ~(DaysToNextUpload(user, log, t, days) > 0)

CadenceMessages(user, log, t, days) ==
  IF DaysToNextUpload(user, log, t, days) > 0 THEN {"cadence_warning"} ELSE {}

-----------------------------------------------------------------------------
(* State after construction *)

NoResponse == [template |-> "none", form |-> "none", uploads |-> FALSE,
               data |-> NoStatistics, has_data |-> FALSE,
               c11_errors |-> <<>>, bw_errors |-> <<>>]

\* a variant whose context leaves the per-row errors out
RenderedWithoutErrors(template, form, listed, has_data, data, c11e, bwe) ==
  [template |-> template, form |-> form, uploads |-> listed,
   data |-> data, has_data |-> has_data, c11_errors |-> <<>>, bw_errors |-> <<>>]

Rendered(template, form, listed, has_data, data, c11e, bwe) ==
  [template |-> template, form |-> form, uploads |-> listed,
   data |-> data, has_data |-> has_data, c11_errors |-> c11e, bw_errors |-> bwe]

FormState(disabled) == IF disabled THEN "disabled" ELSE "enabled"

Idle == pc = "idle"

\* the locals of a handler at its entry (post, lines 74-79)
Enter(req) ==
  /\ request' = req
  /\ c11_data' = <<>>
  /\ bw_data' = <<>>
  /\ c11_data_error' = <<>>
  /\ bw_data_error' = <<>>
  /\ file_content' = <<>>
  /\ statistics' = NoStatistics
  /\ upload_successful' = FALSE
  /\ extra_projects' = {}
  /\ pre_store' = store
  /\ pre_uploads' = uploads
  /\ raised' = {}
  /\ deleted' = {}

Locals == <<request, days_to_upload, msgs, c11_data, bw_data, c11_data_error,
            bw_data_error, file_content, statistics, upload_successful,
            extra_projects, response, pre_store, pre_uploads, called, raised,
            deleted>>

InitCommon ==
  /\ form_disabled = FALSE
  /\ pc = "idle"
  /\ request = NoRequest
  /\ days_to_upload = 0
  /\ msgs = {}
  /\ c11_data = <<>>
  /\ bw_data = <<>>
  /\ c11_data_error = <<>>
  /\ bw_data_error = <<>>
  /\ file_content = <<>>
  /\ statistics = NoStatistics
  /\ upload_successful = FALSE
  /\ extra_projects = {}
  /\ response = NoResponse
  /\ pre_store = store
  /\ pre_uploads = uploads
  /\ called = {}
  /\ raised = {}
  /\ deleted = {}

\* a record of the audit log written by an earlier request, at time t
EarlierUpload(t) ==
  [creator |-> [is_staff |-> FALSE, is_superuser |-> FALSE, in_groups |-> TRUE],
   file_name |-> FileLabel(FileName, FileName),
   file_content |-> <<>>,
   read_successful |-> FALSE,
   timestamp |-> t]

EarlierLogs(t) ==
  {<<>>} \cup {<<EarlierUpload(a)>> : a \in 0..t}
         \cup {log \in {<<EarlierUpload(a), EarlierUpload(b)>> : a \in 0..t, b \in 0..t} :
                 log[1].timestamp < log[2].timestamp}

\* a single request, against any store, the audit log empty or just written to
Init ==
  /\ store \in SUBSET Orders
  /\ now = 0
  /\ uploads \in EarlierLogs(now)
  /\ cooldown = MaxCooldown
  /\ InitCommon

-----------------------------------------------------------------------------
(* UploadView.get *)

Get(user) ==
  /\ Idle
  /\ Enter([method |-> "GET", user |-> user, c11_file |-> NoFile,
            bw_file |-> NoFile, form_valid |-> FALSE])
  /\ pc' = "done"
  /\ IF user.is_superuser
     THEN /\ form_disabled' = FALSE
          /\ days_to_upload' = 0
          /\ called' = {}
          /\ msgs' = {}
          /\ response' = Rendered("upload.html", FormState(form_disabled'), TRUE,
                                  FALSE, NoStatistics, <<>>, <<>>)
     ELSE /\ days_to_upload' = DaysToNextUpload(user, uploads, now, cooldown)
          /\ called' = {"check_upload_allow"}
          /\ form_disabled' = IF CheckUploadAllow(user, uploads, now, cooldown)
                              THEN form_disabled ELSE TRUE
          /\ IF ~user.in_groups
             THEN /\ msgs' = CadenceMessages(user, uploads, now, cooldown)
                              \cup {"not_allowed_warning"}
                  /\ response' = Rendered("upload.html", FormState(form_disabled'), FALSE,
                                          FALSE, NoStatistics, <<>>, <<>>)
             ELSE /\ msgs' = CadenceMessages(user, uploads, now, cooldown)
                  /\ response' = Rendered("upload.html", FormState(form_disabled'), TRUE,
                                          FALSE, NoStatistics, <<>>, <<>>)
  /\ UNCHANGED <<store, uploads, now, cooldown>>

-----------------------------------------------------------------------------
(* UploadView.post *)

\* lines 74-89 and 155-160: the gate, the form validation
PostFiles(user, form_valid, c11_name, bw_name) ==
  /\ Idle
  /\ Enter([method |-> "POST", user |-> user,
            c11_file |-> IF form_valid THEN Unread(c11_name) ELSE NoFile,
            bw_file |-> IF form_valid THEN Unread(bw_name) ELSE NoFile,
            form_valid |-> form_valid])
  /\ days_to_upload' = DaysToNextUpload(user, uploads, now, cooldown)
  /\ called' = {"check_upload_allow"}
  /\ msgs' = CadenceMessages(user, uploads, now, cooldown)
  /\ IF \/ ~CheckUploadAllow(user, uploads, now, cooldown)
        \/ ~(user.is_superuser \/ user.in_groups)
     THEN /\ pc' = "done"
          /\ response' = Rendered("upload.html", "disabled", FALSE,
                                  FALSE, NoStatistics, <<>>, <<>>)
     ELSE IF form_valid
     THEN /\ pc' = "parse_c11"
          /\ response' = NoResponse
     ELSE /\ pc' = "done"
          /\ response' = Rendered("upload.html", "enabled", FALSE,
                                  FALSE, NoStatistics, <<>>, <<>>)
  /\ UNCHANGED <<store, uploads, now, cooldown, form_disabled>>

\* a POST whose two files carry the usual name
Post(user, form_valid) == PostFiles(user, form_valid, FileName, FileName)

\* the except clauses of lines 120-136, by the kind of failure
Handled(kind) ==
  CASE kind = "wrong_excel" -> "wrong_excel_warning"
    [] kind = "not_excel" -> "os_error_warning"
    [] OTHER -> "upload_error"

\* a variant in which the handler resumes the pipeline at the merge
RaiseResumes(kind, step) ==
  /\ msgs' = msgs \cup {Handled(kind)}
  /\ raised' = raised \cup {step}
  /\ pc' = "build"

\* an exception raised inside the try of line 95: handled, then the finally
Raise(kind, step) ==
  /\ msgs' = msgs \cup {Handled(kind)}
  /\ raised' = raised \cup {step}
  /\ pc' = "finally"

\* lines 92 and 96, c11_file being the file uploaded as request.FILES['c11_file']
ParseC11(c11_file) ==
  /\ pc = "parse_c11"
  /\ c11_file.name = request.c11_file.name
  /\ request' = [request EXCEPT !.c11_file = c11_file]
  /\ called' = called \cup {"parse_c11_file"}
  /\ IF c11_file.kind = "excel"
     THEN /\ c11_data' = ParseFile(c11_file).data
          /\ c11_data_error' = ParseFile(c11_file).errors
          /\ pc' = "parse_bw"
          /\ UNCHANGED <<msgs, raised>>
     ELSE /\ Raise(c11_file.kind, "parse_c11_file")
          /\ UNCHANGED <<c11_data, c11_data_error>>
  /\ UNCHANGED <<store, uploads, now, cooldown, form_disabled,
                 days_to_upload, bw_data, bw_data_error, file_content, statistics,
                 upload_successful, extra_projects, response, pre_store,
                 pre_uploads, deleted>>

\* lines 93 and 97-100, bw_file being the file uploaded as request.FILES['bw_file']
ParseBW(bw_file) ==
  /\ pc = "parse_bw"
  /\ bw_file.name = request.bw_file.name
  /\ request' = [request EXCEPT !.bw_file = bw_file]
  /\ called' = called \cup {"parse_bw_file"}
  /\ IF bw_file.kind = "excel"
     THEN /\ bw_data' = ParseFile(bw_file).data
          /\ bw_data_error' = ParseFile(bw_file).errors
          /\ file_content' = FileContent(c11_data, bw_data')
          /\ pc' = "build"
          /\ UNCHANGED <<msgs, raised>>
     ELSE /\ Raise(bw_file.kind, "parse_bw_file")
          /\ UNCHANGED <<bw_data, bw_data_error, file_content>>
  /\ UNCHANGED <<store, uploads, now, cooldown, form_disabled,
                 days_to_upload, c11_data, c11_data_error, statistics,
                 upload_successful, extra_projects, response, pre_store,
                 pre_uploads, deleted>>

\* lines 102-103
Build ==
  /\ pc = "build"
  /\ called' = called \cup {"build_objects"}
  /\ store' = BuildProjects(store, c11_data, bw_data)
  /\ statistics' = BuildStatistics(c11_data, bw_data)
  /\ upload_successful' = TRUE
  /\ pc' = "extract"
  /\ UNCHANGED <<uploads, now, cooldown, form_disabled, request, days_to_upload,
                 msgs, c11_data, bw_data, c11_data_error, bw_data_error,
                 file_content, extra_projects, response, pre_store, pre_uploads,
                 raised, deleted>>

\* line 102 raising
BuildFails ==
  /\ pc = "build"
  /\ called' = called \cup {"build_objects"}
  /\ Raise("error", "build_objects")
  /\ UNCHANGED <<store, uploads, now, cooldown, form_disabled, request,
                 days_to_upload, c11_data, bw_data, c11_data_error, bw_data_error,
                 file_content, statistics, upload_successful, extra_projects,
                 response, pre_store, pre_uploads, deleted>>

\* lines 107-116
Extract ==
  /\ pc = "extract"
  /\ IF ExtractRaises(file_content)
     THEN /\ Raise("error", "extract")
          /\ UNCHANGED extra_projects
     ELSE /\ extra_projects' = ExtraProjects(store, UploadedOrderNumbers(file_content))
          /\ pc' = "delete"
          /\ UNCHANGED <<msgs, raised>>
  /\ UNCHANGED <<store, uploads, now, cooldown, form_disabled, request,
                 days_to_upload, c11_data, bw_data, c11_data_error, bw_data_error,
                 file_content, statistics, upload_successful, response, pre_store,
                 pre_uploads, called, deleted>>

\* lines 117-118, one iteration
Delete ==
  /\ pc = "delete"
  /\ \E p \in extra_projects :
       /\ store' = store \ {p}
       /\ deleted' = deleted \cup {p}
       /\ extra_projects' = extra_projects \ {p}
  /\ called' = called \cup {"delete"}
  /\ UNCHANGED <<uploads, now, cooldown, form_disabled, pc, request, days_to_upload,
                 msgs, c11_data, bw_data, c11_data_error, bw_data_error,
                 file_content, statistics, upload_successful, response, pre_store,
                 pre_uploads, raised>>

\* line 118 raising
DeleteFails ==
  /\ pc = "delete"
  /\ extra_projects # {}
  /\ called' = called \cup {"delete"}
  /\ Raise("error", "delete")
  /\ UNCHANGED <<store, uploads, now, cooldown, form_disabled, request,
                 days_to_upload, c11_data, bw_data, c11_data_error, bw_data_error,
                 file_content, statistics, upload_successful, extra_projects,
                 response, pre_store, pre_uploads, deleted>>

\* the for loop of line 117 ends
LoopEnd ==
  /\ pc = "delete"
  /\ extra_projects = {}
  /\ pc' = "finally"
  /\ UNCHANGED <<store, uploads, now, cooldown, form_disabled, request,
                 days_to_upload, msgs, c11_data, bw_data, c11_data_error,
                 bw_data_error, file_content, statistics, upload_successful,
                 extra_projects, response, pre_store, pre_uploads, called, raised,
                 deleted>>

\* Upload(creator=..., file_name=..., file_content=..., read_successful=...)
UploadRecord ==
  [creator |-> request.user,
   file_name |-> FileLabel(request.c11_file.name, request.bw_file.name),
   file_content |-> file_content,
   read_successful |-> upload_successful,
   timestamp |-> now]

\* a variant that records successful attempts only
SavedLogSuccessOnly(log, record) == IF record.read_successful THEN Append(log, record) ELSE log

\* a variant that saves the record twice
SavedLogTwice(log, record) == Append(Append(log, record), record)

\* a variant that saves over the latest row when there is one
SavedLogOverwrite(log, record) ==
  IF log = <<>> THEN <<record>> ELSE [log EXCEPT ![Len(log)] = record]

\* Upload(...).save()
SavedLog(log, record) == Append(log, record)

\* lines 138-153 and 162-166
Finally ==
  /\ pc = "finally"
  /\ uploads' = SavedLog(uploads, UploadRecord)
  /\ called' = called \cup {"save"}
  /\ response' = IF ~upload_successful
                 THEN Rendered("upload.html", "enabled", FALSE, FALSE, NoStatistics,
                               c11_data_error, bw_data_error)
                 ELSE Rendered("upload_statistics.html", "none", FALSE, TRUE, statistics,
                               c11_data_error, bw_data_error)
  /\ pc' = "done"
  /\ UNCHANGED <<store, now, cooldown, form_disabled, request, days_to_upload,
                 msgs, c11_data, bw_data, c11_data_error, bw_data_error,
                 file_content, statistics, upload_successful, extra_projects,
                 pre_store, pre_uploads, raised, deleted>>

\* a variant in which the failure of line 145 is caught and post goes on to
\* its return statements
SaveFailsSwallowed ==
  /\ pc = "finally"
  /\ called' = called \cup {"save"}
  /\ raised' = raised \cup {"save"}
  /\ response' = IF ~upload_successful
                 THEN Rendered("upload.html", "enabled", FALSE, FALSE, NoStatistics,
                               c11_data_error, bw_data_error)
                 ELSE Rendered("upload_statistics.html", "none", FALSE, TRUE, statistics,
                               c11_data_error, bw_data_error)
  /\ pc' = "done"
  /\ UNCHANGED <<store, uploads, now, cooldown, form_disabled, request,
                 days_to_upload, msgs, c11_data, bw_data, c11_data_error,
                 bw_data_error, file_content, statistics, upload_successful,
                 extra_projects, pre_store, pre_uploads, deleted>>

\* line 145 raising: the exception leaves post
SaveFails ==
  /\ pc = "finally"
  /\ called' = called \cup {"save"}
  /\ raised' = raised \cup {"save"}
  /\ response' = Rendered("server_error", "none", FALSE, FALSE, NoStatistics, <<>>, <<>>)
  /\ pc' = "done"
  /\ UNCHANGED <<store, uploads, now, cooldown, form_disabled, request,
                 days_to_upload, msgs, c11_data, bw_data, c11_data_error,
                 bw_data_error, file_content, statistics, upload_successful,
                 extra_projects, pre_store, pre_uploads, deleted>>

\* the response has gone out: the handler's frame is gone
Return ==
  /\ pc = "done"
  /\ pc' = "idle"
  /\ request' = NoRequest
  /\ days_to_upload' = 0
  /\ msgs' = {}
  /\ c11_data' = <<>>
  /\ bw_data' = <<>>
  /\ c11_data_error' = <<>>
  /\ bw_data_error' = <<>>
  /\ file_content' = <<>>
  /\ statistics' = NoStatistics
  /\ upload_successful' = FALSE
  /\ extra_projects' = {}
  /\ response' = NoResponse
  /\ pre_store' = store
  /\ pre_uploads' = uploads
  /\ called' = {}
  /\ raised' = {}
  /\ deleted' = {}
  /\ UNCHANGED <<store, uploads, now, cooldown, form_disabled>>

\* the clock, between requests
Tick ==
  /\ Idle
  /\ now < MaxTime
  /\ now' = now + 1
  /\ UNCHANGED <<store, uploads, cooldown, form_disabled, pc>>
  /\ UNCHANGED Locals

Next ==
  \/ \E user \in Uploaders : Get(user)
  \/ \E user \in Uploaders, form_valid \in BOOLEAN : Post(user, form_valid)
  \/ \E c11_file \in Files : ParseC11(c11_file)
  \/ \E bw_file \in Files : ParseBW(bw_file)
  \/ Build
  \/ BuildFails
  \/ Extract
  \/ Delete
  \/ DeleteFails
  \/ LoopEnd
  \/ Finally
  \/ SaveFails

Spec == Init /\ [][Next]_vars

-----------------------------------------------------------------------------
(* The cadence scenarios: sequences of requests over several days, the files *)
(* without rows                                                            *)

InitGate ==
  /\ store = {}
  /\ uploads = <<>>
  /\ now = 0
  /\ cooldown \in 1..MaxCooldown
  /\ InitCommon

NextGate ==
  \/ \E user \in Users : Get(user)
  \/ \E user \in Users, form_valid \in BOOLEAN :
       Post(user, form_valid) /\ (pc' # "done" => Len(uploads) < MaxUploads)
  \/ \E c11_file \in GateFiles : ParseC11(c11_file)
  \/ \E bw_file \in GateFiles : ParseBW(bw_file)
  \/ Build
  \/ BuildFails
  \/ Extract
  \/ LoopEnd
  \/ Finally
  \/ SaveFails
  \/ Return
  \/ Tick

SpecGate == InitGate /\ [][NextGate]_vars

-----------------------------------------------------------------------------
(* The cadence computation on its own: any clock, any earlier uploads *)

CooldownChoices == {0, 1, 7}

InitCadence ==
  /\ store = {}
  /\ now \in 0..MaxGateTime
  /\ uploads \in EarlierLogs(now)
  /\ cooldown \in CooldownChoices
  /\ InitCommon

NextCadence ==
  \/ \E user \in Users : Get(user)
  \/ \E user \in Users : Post(user, FALSE)

SpecCadence == InitCadence /\ [][NextCadence]_vars

-----------------------------------------------------------------------------
(* The label scenarios: one request, the files of any name and without rows *)

InitLabel ==
  /\ store = {}
  /\ uploads = <<>>
  /\ now = 0
  /\ cooldown = MaxCooldown
  /\ InitCommon

NextLabel ==
  \/ /\ Idle
     /\ \E user \in Uploaders, c11_name \in NamesOf("a"), bw_name \in NamesOf("b") :
          PostFiles(user, TRUE, c11_name, bw_name)
  \/ \E c11_file \in GateFiles : ParseC11(Named(c11_file, request.c11_file.name))
  \/ \E bw_file \in GateFiles : ParseBW(Named(bw_file, request.bw_file.name))
  \/ Build
  \/ BuildFails
  \/ Extract
  \/ LoopEnd
  \/ Finally
  \/ SaveFails

SpecLabel == InitLabel /\ [][NextLabel]_vars

-----------------------------------------------------------------------------
(* Vocabulary of the properties *)

PostDone == pc = "done" /\ request.method = "POST"

\* the request passed the gate and the form validation
Entered == "parse_c11_file" \in called

Saved == "save" \in called /\ "save" \notin raised

NumbersIn(file) == {n \in Orders : \E i \in 1..Len(file.rows) : file.rows[i] = ToDigits(n)}

\* the order_numbers of the rows of the two uploaded files
UploadNumbers == NumbersIn(request.c11_file) \cup NumbersIn(request.bw_file)

StageRaised == raised \cap {"parse_c11_file", "parse_bw_file", "build_objects", "delete"} # {}

WholeFileFailure ==
  \/ "parse_c11_file" \in raised /\ request.c11_file.kind \in {"wrong_excel", "not_excel"}
  \/ "parse_bw_file" \in raised /\ request.bw_file.kind \in {"wrong_excel", "not_excel"}

Privileged(user) == user.is_staff \/ user.is_superuser

Permitted(user) == user.is_superuser \/ user.in_groups

Rejected == days_to_upload > 0 \/ ~Permitted(request.user)

LastRecord == uploads[Len(uploads)]

-----------------------------------------------------------------------------
(* Properties *)

\* C1: whenever a stage of a POST attempt fails (a parser, build_objects or a
\* delete of the stale loop), the store after the attempt is the store before it.
C1_AllOrNothing == (PostDone /\ StageRaised) => store = pre_store

\* C2: a POST attempt that passed the gate and the form validation has written
\* nothing before its finally block and exactly one UploadRecord after it, on
\* every exit path of the pipeline; the earlier records are the log's prefix.
C2_ExactlyOneRecord ==
  /\ (request.method = "POST" /\ pc # "done") => uploads = pre_uploads
  /\ (PostDone /\ Entered /\ Saved) =>
       /\ Len(uploads) = Len(pre_uploads) + 1
       /\ SubSeq(uploads, 1, Len(pre_uploads)) = pre_uploads

C2_Witness ==
  /\ PostDone /\ Entered /\ Saved
  /\ "parse_bw_file" \in raised
  /\ Len(uploads) = Len(pre_uploads) + 1

\* C3: the read_successful flag of the record written for an attempt is true
\* exactly when no step of the attempt raised.
C3_FlagMatchesOutcome ==
  (PostDone /\ Entered /\ Saved) => (LastRecord.read_successful <=> raised = {})

\* C4: after a POST attempt in which nothing raised, the store holds exactly
\* the order_numbers of the rows of the two uploaded files.
C4_StoreEqualsUpload ==
  (PostDone /\ Entered /\ raised = {}) => store = UploadNumbers

C4_Witness ==
  /\ PostDone /\ Entered /\ raised = {}
  /\ pre_store \ UploadNumbers # {}
  /\ UploadNumbers \ pre_store # {}
  /\ UploadNumbers \cap pre_store # {}
  /\ store = UploadNumbers

\* C5: once a parser has raised WrongExcelFileException or OSError, the attempt
\* never calls build_objects, deletes nothing and leaves the store as it was,
\* and the record it writes has read_successful false.
C5_WholeFileFailure ==
  WholeFileFailure =>
    /\ "build_objects" \notin called
    /\ "delete" \notin called
    /\ deleted = {}
    /\ store = pre_store
    /\ (pc = "done" /\ Saved) =>
         /\ Len(uploads) = Len(pre_uploads) + 1
         /\ ~LastRecord.read_successful

C5_Witness ==
  /\ PostDone /\ Saved
  /\ "parse_bw_file" \in raised
  /\ request.bw_file.kind = "not_excel"
  /\ c11_data # <<>>
  /\ pre_store # {}
  /\ ~LastRecord.read_successful

\* C6: a POST rejected by the cadence gate (days to next upload > 0) or by the
\* permission check ends at once: it calls no parser and no merge, deletes
\* nothing and leaves the store as it was.
C6_GateShortCircuit ==
  (request.method = "POST" /\ Rejected) =>
    /\ pc = "done"
    /\ called = {"check_upload_allow"}
    /\ deleted = {}
    /\ store = pre_store
    /\ response.template = "upload.html"
    /\ response.form = "disabled"

C6_Witness ==
  /\ PostDone
  /\ days_to_upload > 0
  /\ Permitted(request.user)
  /\ store # {}
  /\ called = {"check_upload_allow"}

\* C7: for an actor who is not staff, days_to_upload is the whole number of
\* days in (timestamp of the latest record + cooldown days) - today's midnight;
\* the actor is denied exactly when that number is > 0, and allowed when the log
\* is empty; with 7 cooldown days and the latest upload 3 days old it is 4.
C7_CadenceComputation ==
  (request.method # "none" /\ "check_upload_allow" \in called /\ ~request.user.is_staff) =>
    IF pre_uploads = <<>>
    THEN days_to_upload = 0 /\ "cadence_warning" \notin msgs
    ELSE \E i \in 1..Len(pre_uploads), midnight \in 0..now :
           LET last == pre_uploads[i].timestamp
               left == (last + cooldown * TicksPerDay) - midnight
           IN /\ \A j \in 1..Len(pre_uploads) : pre_uploads[j].timestamp <= last
              /\ \E d \in 0..now : midnight = d * TicksPerDay
              /\ midnight <= now /\ now < midnight + TicksPerDay
              /\ days_to_upload * TicksPerDay <= left
              /\ left < (days_to_upload + 1) * TicksPerDay
              /\ "cadence_warning" \in msgs <=> days_to_upload > 0
              /\ (request.method = "POST" /\ days_to_upload > 0) => response.form = "disabled"
              /\ (cooldown = 7 /\ now - last = 3 * TicksPerDay) => days_to_upload = 4

C7_Witness ==
  /\ pc = "done"
  /\ request.method = "POST"
  /\ ~request.user.is_staff
  /\ Len(pre_uploads) = 2
  /\ cooldown = 7
  /\ now - pre_uploads[2].timestamp = 3 * TicksPerDay
  /\ now % TicksPerDay # 0
  /\ days_to_upload = 4
  /\ "cadence_warning" \in msgs
  /\ response.form = "disabled"

\* C8: no GET or POST by a staff user or by a superuser is rejected, warned or
\* shown disabled upload fields because of the cooldown.
C8_PrivilegedBypass ==
  (pc = "done" /\ Privileged(request.user)) =>
    /\ "cadence_warning" \notin msgs
    /\ request.method = "GET" => response.form = "enabled"
    /\ (request.method = "POST" /\ Permitted(request.user)) => response.form # "disabled"

\* C9: an attempt deletes only Projects that were in the store and whose
\* order_number is in neither uploaded file, and an attempt in which nothing
\* raised deletes every such Project.
C9_OnlyStaleDeleted ==
  /\ deleted \cap UploadNumbers = {}
  /\ deleted \subseteq pre_store
  /\ (PostDone /\ Entered /\ raised = {}) => deleted = pre_store \ UploadNumbers

C9_Witness ==
  /\ PostDone /\ Entered /\ raised = {}
  /\ NumbersIn(request.c11_file) \cap pre_store # {}
  /\ NumbersIn(request.bw_file) \cap pre_store # {}
  /\ NumbersIn(request.c11_file) # NumbersIn(request.bw_file)
  /\ deleted # {}
  /\ deleted = pre_store \ UploadNumbers

\* C10 as stated: every terminal outcome of a POST, the rejections by the gate
\* and the invalid form included, ends with an UploadRecord written for it.
C10_AuditUnconditional ==
  (PostDone /\ "save" \notin raised) => Len(uploads) = Len(pre_uploads) + 1

\* C10 as amended: a POST writes an UploadRecord exactly when it passed the
\* gate and the form validation; a POST that was rejected or whose form was
\* invalid leaves the log as it was.
C10_AuditAfterGate ==
  (PostDone /\ "save" \notin raised) =>
    /\ Len(uploads) = Len(pre_uploads) + 1 <=> Entered
    /\ ~Entered => uploads = pre_uploads

C10_Witness ==
  /\ PostDone
  /\ ~Entered
  /\ days_to_upload > 0
  /\ "cadence_warning" \in msgs
  /\ pre_uploads # <<>>
  /\ uploads = pre_uploads

\* the rows of a file whose order_number cell is not a number
BadRows(file) == {i \in 1..Len(file.rows) : \A n \in Orders : file.rows[i] # ToDigits(n)}

\* C11: a POST returns the statistics page exactly when no step of the attempt
\* raised; an attempt in which a step raised returns the upload page with the
\* two error reports and a message.
C11_StatisticsIffSuccess ==
  (PostDone /\ Entered /\ Saved) =>
    /\ response.template = "upload_statistics.html" <=> raised = {}
    /\ raised # {} => (response.template = "upload.html" /\ msgs # {})

\* C12: per-row errors do not stop an attempt: with well-formed files the
\* parsers do not raise whatever the rows, and an attempt with per-row errors in
\* which nothing raised has run the merge and the stale deletion, is recorded
\* with read_successful true and returns the statistics together with one
\* error per bad row of each file.
C12_RowErrorsDoNotEscalate ==
  /\ ("parse_c11_file" \in called /\ request.c11_file.kind = "excel") =>
       "parse_c11_file" \notin raised
  /\ ("parse_bw_file" \in called /\ request.bw_file.kind = "excel") =>
       "parse_bw_file" \notin raised
  /\ (PostDone /\ Entered /\ Saved /\ raised = {}) =>
       /\ "build_objects" \in called
       /\ deleted = pre_store \ UploadNumbers
       /\ LastRecord.read_successful
       /\ response.template = "upload_statistics.html"
       /\ response.has_data
       /\ {response.c11_errors[i].row : i \in 1..Len(response.c11_errors)}
            = BadRows(request.c11_file)
       /\ {response.bw_errors[i].row : i \in 1..Len(response.bw_errors)}
            = BadRows(request.bw_file)
       /\ Len(response.c11_errors) = Cardinality(BadRows(request.c11_file))
       /\ Len(response.bw_errors) = Cardinality(BadRows(request.bw_file))

C12_Witness ==
  /\ PostDone /\ Entered /\ Saved /\ raised = {}
  /\ BadRows(request.c11_file) # {}
  /\ BadRows(request.bw_file) = {}
  /\ request.bw_file.rows # <<>>
  /\ deleted # {}
  /\ LastRecord.read_successful
  /\ response.template = "upload_statistics.html"
  /\ Len(response.c11_errors) = 1

\* C13: the record written for an attempt in which a step raised still holds
\* the serialization of what was uploaded, not an empty value.
C13_SnapshotOfFailedAttempt ==
  (PostDone /\ Entered /\ Saved /\ raised # {}) => LastRecord.file_content # <<>>

\* C14: a request never changes or removes a record that was in the log when
\* it arrived: a GET and a rejected POST leave the log as it was, and any other
\* POST leaves it as it was or with one record appended.
C14_AppendOnly ==
  ~Idle =>
    /\ Len(uploads) \in {Len(pre_uploads), Len(pre_uploads) + 1}
    /\ SubSeq(uploads, 1, Len(pre_uploads)) = pre_uploads
    /\ (request.method = "GET" \/ ~Entered) => uploads = pre_uploads

C14_Witness ==
  /\ PostDone /\ Entered /\ Saved
  /\ pre_uploads # <<>>
  /\ Len(uploads) = Len(pre_uploads) + 1
  /\ uploads[1] = pre_uploads[1]

\* 'c11: <c11 name> - bw: <bw name>' for the two files of the request
FullLabel ==
  <<"c", "1", "1", ":", " ">> \o request.c11_file.name
    \o <<" ", "-", " ", "b", "w", ":", " ">> \o request.bw_file.name

C16_FormStatePerRequest ==
  (/\ pc = "done"
   /\ request.method = "GET"
   /\ ~request.user.is_superuser
   /\ CheckUploadAllow(request.user, pre_uploads, now, cooldown)) =>
    response.form = "enabled"

\* C17: when saving the record raises, the exception leaves post: the attempt
\* returns neither the statistics page nor the upload page with the error
\* reports, and no record is written.
C17_AuditWriteFailureFatal ==
  "save" \in raised =>
    /\ pc = "done"
    /\ response.template = "server_error"
    /\ response.template \notin {"upload_statistics.html", "upload.html"}
    /\ ~response.has_data
    /\ response.c11_errors = <<>> /\ response.bw_errors = <<>>
    /\ uploads = pre_uploads

C17_Witness ==
  /\ PostDone /\ Entered
  /\ "save" \in raised
  /\ upload_successful
  /\ response.template = "server_error"

\* whole days from today's midnight to the end of the cooldown that the latest
\* record of the log started
CooldownLeft(log) ==
  ((log[Len(log)].timestamp + cooldown * TicksPerDay) - (now - (now % TicksPerDay)))
    \div TicksPerDay

\* C18: the record of an attempt starts the cooldown whether the attempt
\* succeeded or failed: it carries the time of the attempt, with a cooldown of
\* one day or more at least one day is left right after it, and while days are
\* left on the cooldown of the latest record, whatever its read_successful, a
\* POST by an actor who is not staff is rejected at the gate.
C18_FailedAttemptsStartCooldown ==
  /\ (PostDone /\ Entered /\ Saved) =>
       /\ LastRecord.timestamp = now
       /\ cooldown >= 1 => CooldownLeft(uploads) > 0
  /\ (/\ PostDone
      /\ ~request.user.is_staff
      /\ pre_uploads # <<>>
      /\ CooldownLeft(pre_uploads) > 0) =>
       /\ ~Entered
       /\ called = {"check_upload_allow"}
       /\ response.template = "upload.html"
       /\ response.form = "disabled"
       /\ uploads = pre_uploads

C18_Witness ==
  /\ PostDone
  /\ ~request.user.is_staff
  /\ request.user.in_groups
  /\ request.form_valid
  /\ pre_uploads # <<>>
  /\ ~pre_uploads[Len(pre_uploads)].read_successful
  /\ now > pre_uploads[Len(pre_uploads)].timestamp
  /\ CooldownLeft(pre_uploads) > 0
  /\ response.form = "disabled"

\* C19: in the content recorded for an attempt whose two parses succeeded,
\* the entry under the key c11_data lists the parsed C11 records and the entry
\* under the key bw_data lists the parsed BW records.
C19_ContentLabelling ==
  (/\ PostDone /\ Entered /\ Saved
   /\ "parse_bw_file" \in called
   /\ raised \cap {"parse_c11_file", "parse_bw_file"} = {}) =>
    /\ Len(LastRecord.file_content) = 2
    /\ \A i \in 1..Len(LastRecord.file_content) :
         LET entry == LastRecord.file_content[i]
         IN /\ entry.key = "c11_data" => entry.rows = StrList(c11_data)
            /\ entry.key = "bw_data" => entry.rows = StrList(bw_data)

====
